---- MODULE Spec2Model ----
(***************************************************************************)
(* Model of opensearch-index-resizer/application.py: the index-family      *)
(* extractor (get_index_name), the size aggregator (get_avg_index_size),   *)
(* the shard planner (get_num_shards_for_indices), the template publisher  *)
(* (put_index_templates) and the run of main over the three collaborator   *)
(* calls (list indices, count data nodes, put template).                   *)
(*                                                                         *)
(* A Python str is a sequence of one-character strings.  A Python dict is  *)
(* a sequence of <<key, value>> pairs in insertion order (the order dict   *)
(* iteration follows).  An entry of the index listing is a record with the *)
(* field index and, when the cluster reported it, the field store_size     *)
(* (the listing's 'store.size' key).                                       *)
(***************************************************************************)
EXTENDS Integers, Sequences, FiniteSets

VARIABLES pc, name, parsed, listing, avg, nodes, plan, today, version,
          cursor, calls, templates, err

vars == <<pc, name, parsed, listing, avg, nodes, plan, today, version,
          cursor, calls, templates, err>>

(***************************************************************************)
(* Bounds of the model.                                                    *)
(***************************************************************************)
MaxNameLen == 7
MaxObs == 3
MaxNodes == 17
MaxSize == 320
MaxDay == 2

\* Index names, families and sizes the aggregator, the planner and the run
\* are exercised on.
FamA == <<"a">>
FamB == <<"b">>
NameSamples == { <<"a", "-", "1", ".", "1", ".", "1">>,
                 <<"a", "-", "1", ".", "1", ".", "2">>,
                 <<"b", "-", "1", ".", "1", ".", "1">>,
                 <<"a", "b">> }
ObsSizes == {5, 6, 12}
BracketSamples == {0, 8, 10, 11, 50, 60, 61, 100, 101, 120, 150, 300, 301, 320}

\* Characters index names are drawn from when the extractor is checked alone:
\* a letter, the hyphen, a digit and the dot.
NameAlphabet == {"a", "-", "1", "."}

RECURSIVE StringsUpTo(_)
StringsUpTo(n) ==
  IF n = 0 THEN {<<>>}
  ELSE LET shorter == StringsUpTo(n - 1)
       IN shorter \cup {Append(s, c) : s \in {t \in shorter : Len(t) = n - 1},
                                        c \in NameAlphabet}

(***************************************************************************)
(* Python values.                                                          *)
(***************************************************************************)
None == [some |-> FALSE, val |-> <<>>]
Some(v) == [some |-> TRUE, val |-> v]

Returned(v) == [ok |-> TRUE, val |-> v, exc |-> "none"]
Raised(e) == [ok |-> FALSE, val |-> <<>>, exc |-> e]

DecimalDigits == <<"0", "1", "2", "3", "4", "5", "6", "7", "8", "9">>

\* \d of the re module, on the characters the model uses.
IsDigit(c) == \E d \in 1..10 : DecimalDigits[d] = c

\* The unescaped . of the pattern: any character except a line break.
DotMatches(c) == c # "\n"

\* str(n) of a non-negative int: its decimal digits.
RECURSIVE py_str(_)
py_str(n) ==
  IF n < 10 THEN <<DecimalDigits[n + 1]>>
  ELSE Append(py_str(n \div 10), DecimalDigits[(n % 10) + 1])

\* int(s) of a string of decimal digits.
RECURSIVE py_int(_)
py_int(s) ==
  LET d == (CHOOSE k \in 1..10 : DecimalDigits[k] = s[Len(s)]) - 1
  IN IF Len(s) = 1 THEN d ELSE 10 * py_int(SubSeq(s, 1, Len(s) - 1)) + d

\* int(a / b): the true quotient truncated toward zero (exact for operands
\* below 2^53, where the float quotient never reaches the next integer).
IntOfTrueDiv(a, b) == IF a >= 0 THEN a \div b ELSE -((-a) \div b)

\* The quotient as integer division gives it (a // b): nothing to round up.
FloorOfDiv(a, b) == a \div b

\* int(math.ceil(a / b)) for b > 0.
CeilOfTrueDiv(a, b) == IF a % b = 0 THEN a \div b ELSE (a \div b) + 1

Min(a, b) == IF a <= b THEN a ELSE b

\* dict operations, on the insertion-ordered sequence of pairs.
DictKeys(d) == {d[i][1] : i \in DOMAIN d}
DictGet(d, k) == d[CHOOSE i \in DOMAIN d : d[i][1] = k][2]
DictSet(d, k, v) ==
  IF k \in DictKeys(d)
  THEN [i \in DOMAIN d |-> IF d[i][1] = k THEN <<k, v>> ELSE d[i]]
  ELSE Append(d, <<k, v>>)
\* dict equality ignores the insertion order: the mapping a dict stands for.
DictAsMap(d) == [k \in DictKeys(d) |-> DictGet(d, k)]

(***************************************************************************)
(* get_index_name: re.search(r'-(\d+.\d+.\d+)', index_blob), then the      *)
(* slice before the match.                                                 *)
(***************************************************************************)
AllDigits(s, from, to) == \A j \in from..to : IsDigit(s[j])

\* The pattern matches starting at position i: a hyphen, a run of digits, one
\* character the dot accepts, a run of digits, one such character, a run of
\* digits (a, b, c are the ends of the three runs).
PatternMatchesAt(s, i) ==
  /\ s[i] = "-"
  /\ \E a \in (i + 1)..Len(s), b \in (i + 3)..Len(s), c \in (i + 5)..Len(s) :
       /\ a + 2 <= b /\ b + 2 <= c
       /\ AllDigits(s, i + 1, a)
       /\ DotMatches(s[a + 1])
       /\ AllDigits(s, a + 2, b)
       /\ DotMatches(s[b + 1])
       /\ AllDigits(s, b + 2, c)

\* re.search: the leftmost position the pattern matches at, 0 for no match.
re_search_start(s) ==
  IF \E i \in 1..Len(s) : PatternMatchesAt(s, i)
  THEN CHOOSE i \in 1..Len(s) :
         PatternMatchesAt(s, i) /\ \A j \in 1..(i - 1) : ~PatternMatchesAt(s, j)
  ELSE 0

get_index_name(index_blob) ==
  LET start == re_search_start(index_blob)
  IN IF start = 0 THEN None ELSE Some(SubSeq(index_blob, 1, start - 1))

(***************************************************************************)
(* get_avg_index_size: the sizes of each family collected in listing       *)
(* order, then int(sum / len) per family.                                  *)
(***************************************************************************)
RECURSIVE SumSeq(_)
SumSeq(s) == IF s = <<>> THEN 0 ELSE SumSeq(SubSeq(s, 1, Len(s) - 1)) + s[Len(s)]

\* The first loop: indices_with_all_sizes_dict after the whole listing, or
\* the KeyError of an entry read for a size it does not hold.
RECURSIVE CollectSizes(_)
CollectSizes(list) ==
  IF list = <<>> THEN Returned(<<>>)
  ELSE LET before == CollectSizes(SubSeq(list, 1, Len(list) - 1))
           index_dict == list[Len(list)]
           parsed_index == get_index_name(index_dict.index)
       IN IF ~before.ok THEN before
          ELSE IF ~parsed_index.some THEN before
          ELSE IF "store_size" \notin DOMAIN index_dict THEN Raised("KeyError")
          ELSE IF parsed_index.val \in DictKeys(before.val)
          THEN Returned(DictSet(before.val, parsed_index.val,
                  Append(DictGet(before.val, parsed_index.val),
                         py_str(index_dict.store_size))))
          ELSE Returned(DictSet(before.val, parsed_index.val,
                  <<py_str(index_dict.store_size)>>))

\* The mean rounded up instead of truncated.
AverageOfRoundedUp(sizes) ==
  LET ints == [i \in DOMAIN sizes |-> py_int(sizes[i])]
  IN CeilOfTrueDiv(SumSeq(ints), Len(ints))

\* The second loop's body: the sizes parsed back, their mean truncated.
AverageOf(sizes) ==
  LET ints == [i \in DOMAIN sizes |-> py_int(sizes[i])]
  IN IntOfTrueDiv(SumSeq(ints), Len(ints))

get_avg_index_size(indices_with_sizes_list) ==
  LET all == CollectSizes(indices_with_sizes_list)
  IN IF ~all.ok THEN all
     ELSE Returned([i \in DOMAIN all.val |->
                      <<all.val[i][1], AverageOf(all.val[i][2])>>])

(***************************************************************************)
(* get_num_shards_for_indices.                                             *)
(***************************************************************************)
\* The first branch with the boundary size on the wrong side.
SkippedBelowTen(avg_size) == avg_size < 10

\* The branch "avg_size <= 10: ... continue": the family is left out.
Skipped(avg_size) == avg_size <= 10

\* The third branch with a coarser divisor than the second tier ends on.
NumShardsCoarseTier(avg_size, max_num_shards) ==
  IF avg_size <= 100 THEN Min(CeilOfTrueDiv(avg_size, 10), max_num_shards)
  ELSE IF avg_size <= 300 THEN Min(CeilOfTrueDiv(avg_size, 40), max_num_shards)
  ELSE max_num_shards

\* The other three branches.
NumShards(avg_size, max_num_shards) ==
  IF avg_size <= 100 THEN Min(CeilOfTrueDiv(avg_size, 10), max_num_shards)
  ELSE IF avg_size <= 300 THEN Min(CeilOfTrueDiv(avg_size, 20), max_num_shards)
  ELSE max_num_shards

get_num_shards_for_indices(num_of_data_nodes, indices_with_avg_sizes_dict) ==
  LET d == indices_with_avg_sizes_dict
      max_num_shards == num_of_data_nodes - 1
      after[i \in 0..Len(d)] ==
        IF i = 0 THEN <<>>
        ELSE IF Skipped(d[i][2]) THEN after[i - 1]
        ELSE DictSet(after[i - 1], d[i][1], NumShards(d[i][2], max_num_shards))
  IN after[Len(d)]

(***************************************************************************)
(* The extractor alone: a name is drawn, get_index_name is applied.        *)
(***************************************************************************)
InitName ==
  /\ pc = "extract"
  /\ name \in StringsUpTo(MaxNameLen)
  /\ parsed = None /\ listing = <<>> /\ avg = <<>>
  /\ nodes = 0 /\ plan = <<>> /\ today = 1 /\ version = 0 /\ cursor = 0
  /\ calls = <<>> /\ templates = <<>> /\ err = "none"

ExtractName ==
  /\ pc = "extract"
  /\ parsed' = get_index_name(name)
  /\ pc' = "extracted"
  /\ UNCHANGED <<name, listing, avg, nodes, plan, today, version, cursor,
                 calls, templates, err>>

NextName == ExtractName

SpecName == InitName /\ [][NextName]_vars

\* C5 as claimed: the pattern with literal dots.
ClaimedMatchesAt(s, i) ==
  /\ s[i] = "-"
  /\ \E a \in (i + 1)..Len(s), b \in (i + 3)..Len(s), c \in (i + 5)..Len(s) :
       /\ a + 2 <= b /\ b + 2 <= c
       /\ AllDigits(s, i + 1, a)
       /\ s[a + 1] = "."
       /\ AllDigits(s, a + 2, b)
       /\ s[b + 1] = "."
       /\ AllDigits(s, b + 2, c)

ClaimedFamily(s) ==
  IF \E i \in 1..Len(s) : ClaimedMatchesAt(s, i)
  THEN Some(SubSeq(s, 1, (CHOOSE i \in 1..Len(s) :
                ClaimedMatchesAt(s, i)
                /\ \A j \in 1..(i - 1) : ~ClaimedMatchesAt(s, j)) - 1))
  ELSE None

\* C5: get_index_name returns the prefix before the hyphen of the first
\* substring hyphen, digits, literal dot, digits, literal dot, digits, and
\* returns None for every name that holds no such substring.
C5_ExtractorMatchesLiteralDots ==
  pc = "extracted" => parsed = ClaimedFamily(name)

(***************************************************************************)
(* The aggregator alone: a list of observations is drawn (any order,       *)
(* every entry with its size), get_avg_index_size is applied.              *)
(***************************************************************************)
SeqsUpTo(S, n) == UNION {[1..k -> S] : k \in 0..n}

Observations == {[index |-> n, store_size |-> s] : n \in NameSamples, s \in ObsSizes}

InitAvg ==
  /\ pc = "aggregate"
  /\ listing \in SeqsUpTo(Observations, MaxObs)
  /\ name = <<>> /\ parsed = None /\ avg = <<>>
  /\ nodes = 0 /\ plan = <<>> /\ today = 1 /\ version = 0 /\ cursor = 0
  /\ calls = <<>> /\ templates = <<>> /\ err = "none"

Aggregate ==
  /\ pc = "aggregate"
  /\ LET r == get_avg_index_size(listing)
     IN /\ avg' = r.val
        /\ err' = r.exc
        /\ pc' = IF r.ok THEN "aggregated" ELSE "aborted"
  /\ UNCHANGED <<name, parsed, listing, nodes, plan, today, version, cursor,
                 calls, templates>>

NextAvg == Aggregate

SpecAvg == InitAvg /\ [][NextAvg]_vars

\* What C6 states, written without the code's operators for the mean.
MembersOf(list, f) == {i \in DOMAIN list : get_index_name(list[i].index) = Some(f)}
FamiliesOf(list) ==
  {get_index_name(list[i].index).val :
     i \in {j \in DOMAIN list : get_index_name(list[j].index).some}}
RECURSIVE SumOver(_, _)
SumOver(list, I) ==
  IF I = {} THEN 0
  ELSE LET i == CHOOSE j \in I : TRUE
       IN list[i].store_size + SumOver(list, I \ {i})
FloorMean(total, count) ==
  CHOOSE q \in 0..total : q * count <= total /\ total < (q + 1) * count
Permutations(n) == {p \in [1..n -> 1..n] : \A i, j \in 1..n : p[i] = p[j] => i = j}
Permuted(list, p) == [i \in DOMAIN list |-> list[p[i]]]

\* C6: the aggregator's map has exactly the families with an observation,
\* each mapped to floor(sum / count) of its sizes; entries without a family
\* contribute nothing; every permutation of the list gives the same map.
C6_AveragesAreFloorMeansInAnyOrder ==
  /\ pc \in {"aggregate", "aggregated"}
  /\ pc = "aggregated" =>
       /\ DictKeys(avg) = FamiliesOf(listing)
       /\ Len(avg) = Cardinality(FamiliesOf(listing))
       /\ \A f \in FamiliesOf(listing) :
            DictGet(avg, f) = FloorMean(SumOver(listing, MembersOf(listing, f)),
                                        Cardinality(MembersOf(listing, f)))
       /\ \A p \in Permutations(Len(listing)) :
            LET r == get_avg_index_size(Permuted(listing, p))
            IN r.ok /\ DictAsMap(r.val) = DictAsMap(avg)

\* Sizes 6 and 5 of one family around an entry without a family: mean 5.
C6_Witness ==
  /\ pc = "aggregated"
  /\ Len(listing) = 3
  /\ listing[1] = [index |-> <<"a", "-", "1", ".", "1", ".", "1">>, store_size |-> 6]
  /\ listing[2] = [index |-> <<"a", "b">>, store_size |-> 12]
  /\ listing[3] = [index |-> <<"a", "-", "1", ".", "1", ".", "2">>, store_size |-> 5]
  /\ avg = << <<FamA, 5>> >>

(***************************************************************************)
(* The planner alone: a node count and a map of averages are drawn,        *)
(* get_num_shards_for_indices is applied.                                  *)
(***************************************************************************)
PlannerInputs ==
  {<<>>}
  \cup {<< <<FamA, s>> >> : s \in 0..MaxSize}
  \cup {<< <<FamB, s>> >> : s \in BracketSamples}
  \cup {<< <<FamA, s>>, <<FamB, t>> >> : s \in 0..MaxSize, t \in BracketSamples}
  \cup {<< <<FamB, t>>, <<FamA, s>> >> : s \in 0..MaxSize, t \in BracketSamples}

InitPlan ==
  /\ pc = "plan"
  /\ nodes \in 1..MaxNodes
  /\ avg \in PlannerInputs
  /\ name = <<>> /\ parsed = None /\ listing = <<>>
  /\ plan = <<>> /\ today = 1 /\ version = 0 /\ cursor = 0
  /\ calls = <<>> /\ templates = <<>> /\ err = "none"

PlanShards ==
  /\ pc = "plan"
  /\ plan' = get_num_shards_for_indices(nodes, avg)
  /\ pc' = "planned"
  /\ UNCHANGED <<name, parsed, listing, avg, nodes, today, version, cursor,
                 calls, templates, err>>

NextPlan == PlanShards

SpecPlan == InitPlan /\ [][NextPlan]_vars

\* The least integer not below s / d.
ExactCeil(s, d) == CHOOSE k \in 0..s : k * d >= s /\ (k - 1) * d < s

\* C1: with at least two data nodes, a family of average size s > 10 is
\* planned at min(ceil(s/10), maxShards) up to 100, min(ceil(s/20), maxShards)
\* up to 300 and maxShards above, maxShards being dataNodeCount - 1.
C1_TieredShardCount ==
  (pc = "planned" /\ nodes >= 2) =>
    \A i \in DOMAIN avg :
      LET f == avg[i][1]
          s == avg[i][2]
          maxShards == nodes - 1
      IN s > 10 =>
           /\ f \in DictKeys(plan)
           /\ DictGet(plan, f) =
                IF s <= 100 THEN Min(ExactCeil(s, 10), maxShards)
                ELSE IF s <= 300 THEN Min(ExactCeil(s, 20), maxShards)
                ELSE maxShards

\* 50 GB on three data nodes gives 2; 45 GB on seventeen gives 5.
C1_Witness ==
  /\ pc = "planned"
  /\ \/ nodes = 3 /\ avg = << <<FamA, 50>>, <<FamB, 150>> >>
                  /\ plan = << <<FamA, 2>>, <<FamB, 2>> >>
     \/ nodes = 17 /\ avg = << <<FamA, 45>> >> /\ plan = << <<FamA, 5>> >>

\* C2: every shard count put into the plan lies between 1 and
\* max(1, dataNodeCount - 1), also on a single-node cluster.
C2_ShardCountAtLeastOne ==
  pc = "planned" =>
    \A i \in DOMAIN plan :
      /\ plan[i][2] >= 1
      /\ plan[i][2] <= (IF nodes - 1 >= 1 THEN nodes - 1 ELSE 1)

\* The shard count of a family: its plan entry, 1 when it was left out.
ShardCountOf(f) == IF f \in DictKeys(plan) THEN DictGet(plan, f) ELSE 1

\* C3 as claimed: for a fixed node count the shard count never decreases as
\* the average size grows, across the boundaries at 10, 100 and 300 too.
\* Stated for two or more data nodes, where maxShards is at least 1: its
\* failure there does not rest on the single-node shard count of C2.
C3_MonotoneEverywhere ==
  (pc = "planned" /\ nodes >= 2) =>
    \A f, g \in DictKeys(avg) :
      DictGet(avg, f) <= DictGet(avg, g) => ShardCountOf(f) <= ShardCountOf(g)

\* C3 amended: the shard count never decreases as the average size grows,
\* except across the 100 GB boundary (s1 <= 100 < s2 <= 300) with eight or
\* more data nodes, and across the 10 GB boundary with a single data node.
C3_MonotoneExceptAtTierDrop ==
  pc = "planned" =>
    \A f, g \in DictKeys(avg) :
      LET s1 == DictGet(avg, f)
          s2 == DictGet(avg, g)
      IN s1 <= s2 =>
           \/ ShardCountOf(f) <= ShardCountOf(g)
           \/ nodes >= 8 /\ s1 <= 100 /\ 100 < s2 /\ s2 <= 300
           \/ nodes = 1 /\ s1 <= 10 /\ 10 < s2

\* Seven data nodes: 100 GB and 101 GB both get 6 shards.
C3_Witness ==
  /\ pc = "planned"
  /\ nodes = 7
  /\ avg = << <<FamA, 100>>, <<FamB, 101>> >>
  /\ plan = << <<FamA, 6>>, <<FamB, 6>> >>

(***************************************************************************)
(* get_unix_timestamp and put_index_templates.  The clock is the calendar  *)
(* day, today; mktime of a day's midnight is its count of seconds.         *)
(***************************************************************************)
get_unix_timestamp(day) == day * 86400

\* The body dict of one template.
TemplateDocument(patterns, num_of_shards, template_version) ==
  [order |-> 10,
   index_patterns |-> patterns,
   settings |-> [index |->
     [routing |-> [allocation |-> [total_shards_per_node |-> "2"]],
      refresh_interval |-> "60s",
      number_of_shards |-> num_of_shards,
      translog |-> [retention |-> [age |-> "24h"],
                    sync_interval |-> "5s",
                    durability |-> "async"],
      auto_expand_replicas |-> "false",
      unassigned |-> [node_left |-> [delayed_timeout |-> "5m"]],
      number_of_replicas |-> "1"]],
   version |-> template_version,
   mappings |-> <<>>,
   aliases |-> <<>>]

\* The body with the version read from the clock inside the loop.
TemplateBodyFreshVersion(index, num_of_shards, run_version) ==
  TemplateDocument(<<index \o <<"-", "*">>>>, num_of_shards, get_unix_timestamp(today))

\* The body built in the loop for one (index, num_of_shards) item, with the
\* version taken before the loop.
TemplateBody(index, num_of_shards, run_version) ==
  TemplateDocument(<<index \o <<"-", "*">>>>, num_of_shards, run_version)

\* The loop with the call's exception swallowed: it goes on to the next item.
AfterSubmitSwallowing(outcome, position, items) ==
  IF position < Len(items) THEN "submit" ELSE "done"

\* Where the run stands after a put_template call: an exception leaves the
\* loop and put_index_templates and is caught by main's except clause, which
\* prints it and ends the run; otherwise the loop takes the next item.
AfterSubmit(outcome, position, items) ==
  IF outcome # "ok" THEN "aborted"
  ELSE IF position < Len(items) THEN "submit"
  ELSE "done"

(***************************************************************************)
(* The run of main.  Each collaborator call is one step: it returns or     *)
(* raises, and the computation up to the next call is part of the step.    *)
(* calls is the log of the calls made, templates the cluster's templates.  *)
(***************************************************************************)
RunSizes == {8, 10, 11, 150}
NodeSamples == {1, 3, 12}

RunEntries ==
  {[index |-> n, store_size |-> s] : n \in NameSamples, s \in RunSizes}
  \cup {[index |-> n] : n \in NameSamples}

HasSize(e) == "store_size" \in DOMAIN e

\* A listing of the cluster: each index once, in the order the listing call
\* asks for (s='store.size:desc').
ClusterListings ==
  {l \in SeqsUpTo(RunEntries, MaxObs) :
     /\ \A i, j \in DOMAIN l : l[i].index = l[j].index => i = j
     /\ \A i, j \in DOMAIN l :
          (i < j /\ HasSize(l[i]) /\ HasSize(l[j]))
            => l[i].store_size >= l[j].store_size}

Init ==
  /\ pc = "list"
  /\ name = <<>> /\ parsed = None /\ listing = <<>> /\ avg = <<>>
  /\ nodes = 0 /\ plan = <<>> /\ today = 1 /\ version = 0 /\ cursor = 0
  /\ calls = <<>> /\ templates = <<>> /\ err = "none"

\* get_all_indices returns; step 3 (get_avg_index_size) follows.
ListIndicesReturns ==
  /\ pc = "list"
  /\ \E l \in ClusterListings :
       LET r == get_avg_index_size(l)
       IN /\ listing' = l
          /\ calls' = Append(calls, [op |-> "ListIndices", outcome |-> "ok"])
          /\ avg' = r.val
          /\ err' = r.exc
          /\ pc' = IF r.ok THEN "count" ELSE "aborted"
  /\ UNCHANGED <<name, parsed, nodes, plan, today, version, cursor, templates>>

ListIndicesFails ==
  /\ pc = "list"
  /\ calls' = Append(calls, [op |-> "ListIndices", outcome |-> "ConnectivityError"])
  /\ err' = "ConnectivityError"
  /\ pc' = "aborted"
  /\ UNCHANGED <<name, parsed, listing, avg, nodes, plan, today, version,
                 cursor, templates>>

\* get_num_data_nodes returns; step 5 (get_num_shards_for_indices) and the
\* head of put_index_templates (version = get_unix_timestamp()) follow.
CountDataNodesReturns ==
  /\ pc = "count"
  /\ \E n \in NodeSamples :
       LET p == get_num_shards_for_indices(n, avg)
       IN /\ nodes' = n
          /\ plan' = p
          /\ pc' = IF p = <<>> THEN "done" ELSE "submit"
  /\ calls' = Append(calls, [op |-> "CountDataNodes", outcome |-> "ok"])
  /\ version' = get_unix_timestamp(today)
  /\ cursor' = 1
  /\ UNCHANGED <<name, parsed, listing, avg, today, templates, err>>

CountDataNodesFails ==
  /\ pc = "count"
  /\ calls' = Append(calls, [op |-> "CountDataNodes", outcome |-> "ConnectivityError"])
  /\ err' = "ConnectivityError"
  /\ pc' = "aborted"
  /\ UNCHANGED <<name, parsed, listing, avg, nodes, plan, today, version,
                 cursor, templates>>

\* One iteration of the loop of put_index_templates: the call for the item
\* at the cursor, with its outcome.
SubmitCall(outcome) ==
  [op |-> "SubmitTemplate", outcome |-> outcome, name |-> plan[cursor][1],
   body |-> TemplateBody(plan[cursor][1], plan[cursor][2], version)]

SubmitTemplateAccepted ==
  /\ pc = "submit"
  /\ calls' = Append(calls, SubmitCall("ok"))
  /\ templates' = DictSet(templates, plan[cursor][1], SubmitCall("ok").body)
  /\ cursor' = cursor + 1
  /\ pc' = AfterSubmit("ok", cursor, plan)
  /\ UNCHANGED <<name, parsed, listing, avg, nodes, plan, today, version, err>>

SubmitTemplateRejected ==
  /\ pc = "submit"
  /\ calls' = Append(calls, SubmitCall("RejectedError"))
  /\ cursor' = cursor + 1
  /\ pc' = AfterSubmit("RejectedError", cursor, plan)
  /\ err' = IF pc' = "aborted" THEN "RejectedError" ELSE err
  /\ UNCHANGED <<name, parsed, listing, avg, nodes, plan, today, version,
                 templates>>

SubmitTemplateFails ==
  /\ pc = "submit"
  /\ calls' = Append(calls, SubmitCall("ConnectivityError"))
  /\ cursor' = cursor + 1
  /\ pc' = AfterSubmit("ConnectivityError", cursor, plan)
  /\ err' = IF pc' = "aborted" THEN "ConnectivityError" ELSE err
  /\ UNCHANGED <<name, parsed, listing, avg, nodes, plan, today, version,
                 templates>>

\* Midnight passes while the run is under way.
Tick ==
  /\ pc \in {"list", "count", "submit"}
  /\ today < MaxDay
  /\ today' = today + 1
  /\ UNCHANGED <<pc, name, parsed, listing, avg, nodes, plan, version, cursor,
                 calls, templates, err>>

Next ==
  \/ ListIndicesReturns
  \/ ListIndicesFails
  \/ CountDataNodesReturns
  \/ CountDataNodesFails
  \/ SubmitTemplateAccepted
  \/ SubmitTemplateRejected
  \/ SubmitTemplateFails
  \/ Tick

Spec == Init /\ [][Next]_vars

\* The template submissions made so far, in order.
Submissions == SelectSeq(calls, LAMBDA c : c.op = "SubmitTemplate")

\* The plan has been computed: the node count came back.
Planned == Len(calls) >= 2 /\ calls[2].outcome = "ok"

\* C4: a family is a key of the plan exactly when it is a key of the
\* averages with average size above 10; a family at or below 10 is absent
\* from the plan and no template is ever submitted for it.
C4_PlanHoldsExactlyFamiliesAboveTen ==
  Planned =>
    /\ DictKeys(plan) = {f \in DictKeys(avg) : DictGet(avg, f) > 10}
    /\ Len(plan) = Cardinality(DictKeys(plan))
    /\ \A i \in DOMAIN Submissions :
         /\ Submissions[i].name \in DictKeys(avg)
         /\ DictGet(avg, Submissions[i].name) > 10
    /\ \A f \in DictKeys(templates) : f \in DictKeys(avg) /\ DictGet(avg, f) > 10

\* A family at 150 GB and one at 8 GB: only the first is planned, and the
\* finished run has submitted a template only for it.
C4_Witness ==
  /\ pc = "done"
  /\ nodes = 3
  /\ avg = << <<FamB, 150>>, <<FamA, 8>> >>
  /\ plan = << <<FamB, 2>> >>
  /\ DictKeys(templates) = {FamB}

\* C7: the publisher submits one template per plan entry, in the plan's
\* order and for no other name, named after the family, with the pattern
\* family-*, the family's shard count and one version for the whole run,
\* the one taken before the first submission.
C7_OneTemplatePerPlanEntry ==
  /\ Len(Submissions) <= Len(plan)
  /\ \A i \in DOMAIN Submissions :
       /\ Submissions[i].name = plan[i][1]
       /\ Submissions[i].body.index_patterns = <<plan[i][1] \o <<"-", "*">>>>
       /\ Submissions[i].body.settings.index.number_of_shards = plan[i][2]
       /\ Submissions[i].body.version = Submissions[1].body.version
       /\ Submissions[i].body.version = version
  /\ (pc = "done" /\ err = "none") => Len(Submissions) = Len(plan)

\* Two families submitted and accepted, midnight having passed since the
\* version was taken.
C7_Witness ==
  /\ pc = "done"
  /\ Len(plan) = 2
  /\ Len(Submissions) = 2
  /\ \A i \in 1..2 : Submissions[i].outcome = "ok"
  /\ version = get_unix_timestamp(1)
  /\ today = 2

\* C8: when the cluster rejects one family's template (and no call fails
\* for connectivity), every other family of the plan still has its template
\* submitted by the end of the run.  Stated for two or more data nodes,
\* where every planned shard count is at least 1.
C8_RejectionDoesNotStopTheRun ==
  ( /\ pc \in {"done", "aborted"}
    /\ nodes >= 2
    /\ \E i \in DOMAIN calls : calls[i].outcome = "RejectedError"
    /\ \A i \in DOMAIN calls : calls[i].outcome # "ConnectivityError" )
  => \A k \in DOMAIN plan :
       \E i \in DOMAIN Submissions : Submissions[i].name = plan[k][1]

\* The listing without the entries that lack their size.
WellFormed(l) == SelectSeq(l, HasSize)

\* C9: an entry of the listing without its size is skipped: once the
\* listing came back the averages are those of the well-formed entries and
\* the run is not ended by the missing field.
C9_MissingSizeIsSkipped ==
  (Len(calls) >= 1 /\ calls[1].outcome = "ok") =>
    /\ err # "KeyError"
    /\ DictAsMap(avg) = DictAsMap(get_avg_index_size(WellFormed(listing)).val)

\* C10: the calls are the listing, then the node count, then template
\* submissions; a call that fails is the last call of the run, which is
\* then aborted; the cluster holds exactly the templates accepted before,
\* as they were submitted.
C10_CallOrderAndAbortOnFailure ==
  /\ \A i \in DOMAIN calls :
       /\ (i = 1) <=> (calls[i].op = "ListIndices")
       /\ (i = 2) <=> (calls[i].op = "CountDataNodes")
       /\ (i >= 3) <=> (calls[i].op = "SubmitTemplate")
       /\ i < Len(calls) => calls[i].outcome = "ok"
  /\ (calls # <<>> /\ calls[Len(calls)].outcome # "ok") => pc = "aborted"
  /\ DictKeys(templates) =
       {Submissions[i].name : i \in {j \in DOMAIN Submissions :
                                        Submissions[j].outcome = "ok"}}
  /\ \A i \in DOMAIN Submissions :
       Submissions[i].outcome = "ok" =>
         DictGet(templates, Submissions[i].name) = Submissions[i].body

\* The second submission fails for connectivity: the run is aborted and
\* the first family's template stays in the cluster.
C10_Witness ==
  /\ pc = "aborted"
  /\ Len(plan) = 2
  /\ Len(calls) = 4
  /\ calls[3].outcome = "ok"
  /\ calls[4].outcome = "ConnectivityError"
  /\ DictKeys(templates) = {plan[1][1]}

====
